---------------------------- MODULE Spec2Model ----------------------------
(***************************************************************************)
(* A model of process_incoming_data.py: the date deriver (actual_date),    *)
(* the five row transforms (process_map, process_file_summary,             *)
(* process_group_file, process_group_yoy_groups, process_yoy_summary) with *)
(* their helper wrappers, the dispatch table FILE_PREFIXES and the batch   *)
(* loop process_data_files.                                                *)
(*                                                                         *)
(* The script is Python 2 (dict.has_key, csv files opened 'rb'/'wb'), so   *)
(* "/" on two ints is floor division, None sorts before every str, and     *)
(* str values compare byte by byte.                                        *)
(*                                                                         *)
(* Python values are written as follows:                                   *)
(*   str            a TLA+ string                                          *)
(*   int            an integer                                             *)
(*   None or a str  (the nullable slots of a record) <<>> for None and     *)
(*                  <<s>> for the str s                                    *)
(*   list           a sequence                                             *)
(*   dict           a sequence of <<key, value>> entries, one per key      *)
(*   a call         [val |-> v] when it returns v, [exc |-> e] when it     *)
(*                  raises the exception e                                 *)
(***************************************************************************)
EXTENDS Integers, Sequences, FiniteSets, TLC

VARIABLES
    month,       \* actual_date under call: its argument
    date,        \* actual_date under call: the outcome, Pending before the call
    prefix,      \* a handler under call: its key in FILE_PREFIXES
    inputdata,   \* a handler under call: the rows load_csv returned
    ret,         \* a handler under call: the outcome, Pending before the call
    listing,     \* process_data_files: what os.listdir(inputpath) returned
    inputfiles,  \* process_data_files: the list inputfiles
    idx,         \* process_data_files: the number of loop iterations done
    successes,   \* process_data_files: the list successes
    failures,    \* process_data_files: the list failures
    saved,       \* process_data_files: the <<market, filename, content>> save_csv wrote
    batch        \* process_data_files: the outcome, Pending while the loop runs

vars == <<month, date, prefix, inputdata, ret,
          listing, inputfiles, idx, successes, failures, saved, batch>>

-----------------------------------------------------------------------------
(* Outcomes of a call. *)

Pending == [pending |-> TRUE]

Return(v) == [val |-> v]

Raise(e) == [exc |-> e]

Returned(r) == "val" \in DOMAIN r

Raised(r) == "exc" \in DOMAIN r

(* None and str in a nullable slot. *)
None == <<>>

Some(s) == <<s>>

-----------------------------------------------------------------------------
(* Python 2 str primitives, on the printable ASCII characters. *)

(* The characters 32..95 and 97..126 in code order (96, the backquote, cannot *)
(* be written in a string here and is left out of the alphabet).             *)
ASCII_32_95 == " !\"#$%&'()*+,-./0123456789:;<=>?@ABCDEFGHIJKLMNOPQRSTUVWXYZ[\\]^_"

ASCII_97_126 == "abcdefghijklmnopqrstuvwxyz{|}~"

chr == [n \in (32..95) \cup (97..126) |->
          IF n <= 95 THEN SubSeq(ASCII_32_95, n - 31, n - 31)
          ELSE SubSeq(ASCII_97_126, n - 96, n - 96)]

ord == [c \in {chr[n] : n \in DOMAIN chr} |-> CHOOSE n \in DOMAIN chr : chr[n] = c]

CharAt(s, i) == SubSeq(s, i, i)

(* str.lower(): every "A".."Z" becomes "a".."z", all else is kept. *)
RECURSIVE lower(_)
lower(s) ==
    IF s = "" THEN ""
    ELSE LET c == CharAt(s, 1)
         IN  (IF ord[c] \in ord["A"]..ord["Z"] THEN chr[ord[c] + (ord["a"] - ord["A"])] ELSE c)
             \o lower(SubSeq(s, 2, Len(s)))

(* sub in s: s has sub as a contiguous substring. *)
contains(sub, s) ==
    \E i \in 0..(Len(s) - Len(sub)) : SubSeq(s, i + 1, i + Len(sub)) = sub

(* cmp(a, b) < 0 on two str: byte-wise lexicographic order. *)
RECURSIVE str_lt(_, _)
str_lt(a, b) ==
    IF b = "" THEN FALSE
    ELSE IF a = "" THEN TRUE
    ELSE IF CharAt(a, 1) = CharAt(b, 1)
         THEN str_lt(SubSeq(a, 2, Len(a)), SubSeq(b, 2, Len(b)))
         ELSE ord[CharAt(a, 1)] < ord[CharAt(b, 1)]

(* str.strip() of the blanks. *)
RECURSIVE strip(_)
strip(s) ==
    IF s = "" THEN ""
    ELSE IF CharAt(s, 1) = " " THEN strip(SubSeq(s, 2, Len(s)))
    ELSE IF CharAt(s, Len(s)) = " " THEN strip(SubSeq(s, 1, Len(s) - 1))
    ELSE s

Digits == "0123456789"

IsDigit(c) == Len(c) = 1 /\ contains(c, Digits)

RECURSIVE digits_value(_, _)
digits_value(s, acc) ==
    IF s = "" THEN acc
    ELSE digits_value(SubSeq(s, 2, Len(s)), 10 * acc + (ord[CharAt(s, 1)] - ord["0"]))

AllDigits(s) == Len(s) > 0 /\ \A i \in 1..Len(s) : IsDigit(CharAt(s, i))

(* int(s) on a str: blanks stripped, an optional sign, decimal digits;        *)
(* anything else raises ValueError.                                           *)
int(s) ==
    LET signed(sign, body) ==
            IF ~AllDigits(body) THEN Raise("ValueError")
            ELSE Return((IF sign = "-" THEN -1 ELSE 1) * digits_value(body, 0))
        stripped(t) ==
            IF t # "" /\ CharAt(t, 1) \in {"-", "+"}
            THEN signed(CharAt(t, 1), SubSeq(t, 2, Len(t)))
            ELSE signed("+", t)
    IN  stripped(strip(s))

(* "%02d" % n and "%04d" % n for n >= 0: str(n) zero-padded to width. *)
RECURSIVE zfill(_, _)
zfill(s, width) == IF Len(s) >= width THEN s ELSE zfill("0" \o s, width)

-----------------------------------------------------------------------------
(* actual_date *)

BASE_YEAR == 2000

(* datetime.date accepts the years MINYEAR..MAXYEAR = 1..9999; Python 2's     *)
(* date.strftime refuses a year before 1900.                                  *)
MAXYEAR == 9999

STRFTIME_MINYEAR == 1900

MONTHS_PER_YEAR == 12

(* date.strftime("%Y-%m") *)
strftime_Y_m(year, mon) == zfill(ToString(year), 4) \o "-" \o zfill(ToString(mon), 2)

(* datetime.date(year, mon, 1).strftime("%Y-%m"), ValueError outside the      *)
(* years and months the two calls accept.                                     *)
date_label(year, mon) ==
    IF year > MAXYEAR \/ year < STRFTIME_MINYEAR \/ mon \notin 1..MONTHS_PER_YEAR
    THEN Raise("ValueError")
    ELSE Return(strftime_Y_m(year, mon))

(* actual_date mutated: the offset for January left out. *)
actual_date_no_offset(m) ==
    date_label(BASE_YEAR + (m \div MONTHS_PER_YEAR), m % MONTHS_PER_YEAR)

(* actual_date(month): int(month/12) is floor division on a Python 2 int and  *)
(* month % 12 is in 0..11 for a month of either sign.                         *)
actual_date(m) ==
    date_label(BASE_YEAR + (m \div MONTHS_PER_YEAR), (m % MONTHS_PER_YEAR) + 1)

-----------------------------------------------------------------------------
(* Reference tables. *)

MAP_OUTPUT_SCHEMA == <<"fips_code", "state_abbr", "value">>

SUMMARY_NUM_OUTPUT_SCHEMA == <<"month", "date", "num", "num_unadj">>

SUMMARY_VOL_OUTPUT_SCHEMA == <<"month", "date", "vol", "vol_unadj">>

YOY_SUMMARY_OUTPUT_SCHEMA == <<"month", "date", "yoy_num", "yoy_vol">>

AGE == "age"

INCOME == "income_level"

SCORE == "credit_score"

GROUP_YOY_OUTPUT_SCHEMA == <<"month", "date">>

AGE_YOY == <<"Younger than 30", "30 - 44", "45 - 64", "65 and older">>

AGE_YOY_COLS == <<"younger-than-30", "30-44", "45-64", "65-and-older">>

INCOME_YOY == <<"Low", "Moderate", "Middle", "High">>

INCOME_YOY_COLS == <<"low", "moderate", "middle", "high">>

SCORE_YOY == <<"Deep Subprime", "Subprime", "Near Prime", "Prime", "Superprime">>

SCORE_YOY_COLS == <<"deep-subprime", "subprime", "near-prime", "prime", "super-prime">>

(* "{}_group".format(group) filled in by the process_group_*_vol helpers. *)
GROUP_VOL_OUTPUT_SCHEMA(group) == <<"month", "date", "vol", "vol_unadj", group \o "_group">>

MARKET_NAMES ==
    << <<"AUT", "auto-loan">>, <<"CRC", "credit-card">>, <<"HCE", "hece">>,
       <<"HLC", "heloc">>, <<"MTG", "mortgage">>, <<"PER", "personal-loan">>,
       <<"RET", "retail-loan">>, <<"STU", "student-loan">> >>

TEXT_FIXES ==
    ("30 - 44" :> "Age 30-44") @@ ("45 - 64" :> "Age 45-64")
    @@ ("65 and older" :> "Age 65 and older") @@ ("Deep Subprime" :> "Deep subprime")
    @@ ("Near Prime" :> "Near-prime") @@ ("Superprime" :> "Super-prime")

FIPS_CODES ==
    (1 :> "AL") @@ (2 :> "AK") @@ (4 :> "AZ") @@ (5 :> "AR") @@ (6 :> "CA")
    @@ (8 :> "CO") @@ (9 :> "CT") @@ (10 :> "DE") @@ (11 :> "DC") @@ (12 :> "FL")
    @@ (13 :> "GA") @@ (15 :> "HI") @@ (16 :> "ID") @@ (17 :> "IL") @@ (18 :> "IN")
    @@ (19 :> "IA") @@ (20 :> "KS") @@ (21 :> "KY") @@ (22 :> "LA") @@ (23 :> "ME")
    @@ (24 :> "MD") @@ (25 :> "MA") @@ (26 :> "MI") @@ (27 :> "MN") @@ (28 :> "MS")
    @@ (29 :> "MO") @@ (30 :> "MT") @@ (31 :> "NE") @@ (32 :> "NV") @@ (33 :> "NH")
    @@ (34 :> "NJ") @@ (35 :> "NM") @@ (36 :> "NY") @@ (37 :> "NC") @@ (38 :> "ND")
    @@ (39 :> "OH") @@ (40 :> "OK") @@ (41 :> "OR") @@ (42 :> "PA") @@ (44 :> "RI")
    @@ (45 :> "SC") @@ (46 :> "SD") @@ (47 :> "TN") @@ (48 :> "TX") @@ (49 :> "UT")
    @@ (50 :> "VT") @@ (51 :> "VA") @@ (53 :> "WA") @@ (54 :> "WV") @@ (55 :> "WI")
    @@ (56 :> "WY")

-----------------------------------------------------------------------------
(* dict, as the sequence of its <<key, value>> entries in insertion order. *)

has_key(d, k) == \E i \in 1..Len(d) : d[i][1] = k

getitem(d, k) == d[CHOOSE i \in 1..Len(d) : d[i][1] = k][2]

setitem(d, k, v) ==
    IF has_key(d, k)
    THEN [i \in 1..Len(d) |-> IF d[i][1] = k THEN <<k, v>> ELSE d[i]]
    ELSE Append(d, <<k, v>>)

(* x in lst, for a list. *)
in_list(x, lst) == \E i \in 1..Len(lst) : lst[i] = x

-----------------------------------------------------------------------------
(* list.sort() on a list of records. Python 2 compares two lists element by   *)
(* element and, when one is a prefix of the other, by length; two ints by     *)
(* value, two str byte-wise, and None before any str. kinds names, per        *)
(* position, what a record holds there: "int", "str" or "opt" (None or str).  *)

opt_lt(a, b) ==
    IF a = None THEN b # None
    ELSE IF b = None THEN FALSE
    ELSE str_lt(a[1], b[1])

field_lt(kind, a, b) ==
    CASE kind = "int" -> a < b
      [] kind = "str" -> str_lt(a, b)
      [] kind = "opt" -> opt_lt(a, b)

RECURSIVE list_lt(_, _, _, _)
list_lt(a, b, kinds, i) ==
    IF i > Len(a) \/ i > Len(b) THEN Len(a) < Len(b)
    ELSE IF a[i] = b[i] THEN list_lt(a, b, kinds, i + 1)
    ELSE field_lt(kinds[i], a[i], b[i])

(* One record inserted after every record not greater than it (stable). *)
RECURSIVE insert_sorted(_, _, _)
insert_sorted(sorted, rec, kinds) ==
    IF sorted = <<>> THEN <<rec>>
    ELSE IF list_lt(rec, Head(sorted), kinds, 1)
         THEN <<rec>> \o sorted
         ELSE <<Head(sorted)>> \o insert_sorted(Tail(sorted), rec, kinds)

RECURSIVE sort_from(_, _, _, _)
sort_from(data, i, sorted, kinds) ==
    IF i > Len(data) THEN sorted
    ELSE sort_from(data, i + 1, insert_sorted(sorted, data[i], kinds), kinds)

(* data.sort() mutated: the sort left out. *)
sort_omitted(data, kinds) == data

sort(data, kinds) == sort_from(data, 1, <<>>, kinds)

(* The "Check if any data exists besides column headers" ending of the five  *)
(* transforms, mutated: the body is returned as it is.                       *)
check_data_exists_always(data) == Return(<<TRUE, data>>)

(* if len(data) > 1: return True, data / return True, [] *)
check_data_exists(data) ==
    IF Len(data) > 1 THEN Return(<<TRUE, data>>) ELSE Return(<<TRUE, <<>>>>)

(* data.sort(); data.insert(0, output_schema); then the check above. When    *)
(* building data raised, the exception goes on to the caller.                *)
sort_and_return(data, output_schema, kinds) ==
    IF Raised(data) THEN data
    ELSE check_data_exists(<<output_schema>> \o sort(data.val, kinds))

-----------------------------------------------------------------------------
(* process_map *)

(* FIPS_CODES[code] mutated: a miss gives an empty abbreviation, as          *)
(* FIPS_CODES.get(code, "") would.                                           *)
fips_lookup_default(code) ==
    IF code \in DOMAIN FIPS_CODES THEN Return(FIPS_CODES[code]) ELSE Return("")

(* FIPS_CODES[code]: a miss raises KeyError. *)
fips_lookup(code) ==
    IF code \in DOMAIN FIPS_CODES THEN Return(FIPS_CODES[code]) ELSE Raise("KeyError")

(* data.append([row[0], FIPS_CODES[int(row[0])], row[1]]) *)
process_map_row(data, row) ==
    LET append(abbr) ==
            IF Raised(abbr) THEN abbr
            ELSE IF Len(row) < 2 THEN Raise("IndexError")
            ELSE Return(Append(data, <<row[1], abbr.val, row[2]>>))
        lookup(code) == IF Raised(code) THEN code ELSE append(fips_lookup(code.val))
    IN  IF Len(row) < 1 THEN Raise("IndexError") ELSE lookup(int(row[1]))

RECURSIVE process_map_loop(_, _, _)
process_map_loop(rows, i, data) ==
    LET next(r) == IF Raised(r) THEN r ELSE process_map_loop(rows, i + 1, r.val)
    IN  IF i > Len(rows) THEN Return(data) ELSE next(process_map_row(data, rows[i]))

process_map(rows, output_schema) ==
    LET finish(data) == IF Raised(data) THEN data ELSE check_data_exists(data.val)
    IN  finish(process_map_loop(rows, 1, <<output_schema>>))

-----------------------------------------------------------------------------
(* process_file_summary *)

SUMMARY_KINDS == <<"int", "str", "opt", "opt">>

(* if not d.has_key(k): d[k] = v *)
setdefault(d, k, v) == IF has_key(d, k) THEN d ELSE Append(d, <<k, v>>)

(* The marker test mutated: a row with an unknown marker is skipped. *)
summary_store_skip(proc, monthnum, value, is_adj_str) ==
    IF contains("unadjust", lower(is_adj_str))
    THEN Return(setitem(proc, monthnum, [getitem(proc, monthnum) EXCEPT !.unadj = Some(value)]))
    ELSE IF contains("seasonal", lower(is_adj_str))
    THEN Return(setitem(proc, monthnum, [getitem(proc, monthnum) EXCEPT !.adj = Some(value)]))
    ELSE Return(proc)

(* proc[monthnum]["unadj"] = value when the marker has "unadjust",           *)
(* proc[monthnum]["adj"] = value when it has "seasonal", else TypeError.     *)
summary_store(proc, monthnum, value, is_adj_str) ==
    IF contains("unadjust", lower(is_adj_str))
    THEN Return(setitem(proc, monthnum, [getitem(proc, monthnum) EXCEPT !.unadj = Some(value)]))
    ELSE IF contains("seasonal", lower(is_adj_str))
    THEN Return(setitem(proc, monthnum, [getitem(proc, monthnum) EXCEPT !.adj = Some(value)]))
    ELSE Raise("TypeError")

(* The loop body: unpack the row, parse the month, create the month's entry, *)
(* store the value.                                                          *)
process_file_summary_row(proc, row) ==
    LET store(monthnum) ==
            IF Raised(monthnum) THEN monthnum
            ELSE summary_store(setdefault(proc, monthnum.val, [adj |-> None, unadj |-> None]),
                               monthnum.val, row[2], row[3])
    IN  IF Len(row) # 3 THEN Raise("ValueError") ELSE store(int(row[1]))

RECURSIVE process_file_summary_loop(_, _, _)
process_file_summary_loop(rows, i, proc) ==
    LET next(r) == IF Raised(r) THEN r ELSE process_file_summary_loop(rows, i + 1, r.val)
    IN  IF i > Len(rows) THEN Return(proc) ELSE next(process_file_summary_row(proc, rows[i]))

(* The record of one month mutated: the two value columns exchanged. *)
summary_record_swapped(monthnum, d, value) == <<monthnum, d, value.unadj, value.adj>>

(* [monthnum, actual_date(monthnum), value["adj"], value["unadj"]] *)
summary_record(monthnum, d, value) == <<monthnum, d, value.adj, value.unadj>>

(* for monthnum, value in proc.items(): data.append([...]) *)
RECURSIVE summary_records(_, _, _)
summary_records(proc, i, data) ==
    LET next(d) ==
            IF Raised(d) THEN d
            ELSE summary_records(proc, i + 1,
                                 Append(data, summary_record(proc[i][1], d.val, proc[i][2])))
    IN  IF i > Len(proc) THEN Return(data) ELSE next(actual_date(proc[i][1]))

process_file_summary(rows, output_schema) ==
    LET flatten(proc) ==
            IF Raised(proc) THEN proc
            ELSE sort_and_return(summary_records(proc.val, 1, <<>>), output_schema,
                                 SUMMARY_KINDS)
    IN  flatten(process_file_summary_loop(rows, 1, <<>>))

process_num_summary(rows) == process_file_summary(rows, SUMMARY_NUM_OUTPUT_SCHEMA)

process_vol_summary(rows) == process_file_summary(rows, SUMMARY_VOL_OUTPUT_SCHEMA)

-----------------------------------------------------------------------------
(* process_group_file *)

GROUP_KINDS == <<"int", "str", "opt", "opt", "str">>

(* The marker test mutated: the whole pair is written, so the other slot of  *)
(* the group is cleared.                                                     *)
group_store_clobber(groups, group, value, is_adj_str) ==
    IF contains("unadjust", lower(is_adj_str))
    THEN Return(setitem(groups, group, [adj |-> None, unadj |-> Some(value)]))
    ELSE IF contains("seasonal", lower(is_adj_str))
    THEN Return(setitem(groups, group, [adj |-> Some(value), unadj |-> None]))
    ELSE Raise("TypeError")

(* proc[monthnum][group]["unadj"] = value when the marker has "unadjust",    *)
(* proc[monthnum][group]["adj"] = value when it has "seasonal", else         *)
(* TypeError. groups is proc[monthnum].                                      *)
group_store(groups, group, value, is_adj_str) ==
    IF contains("unadjust", lower(is_adj_str))
    THEN Return(setitem(groups, group, [getitem(groups, group) EXCEPT !.unadj = Some(value)]))
    ELSE IF contains("seasonal", lower(is_adj_str))
    THEN Return(setitem(groups, group, [getitem(groups, group) EXCEPT !.adj = Some(value)]))
    ELSE Raise("TypeError")

(* The loop body: proc[monthnum] and proc[monthnum][group] are created on    *)
(* first sight, then the value is stored.                                    *)
process_group_file_row(proc, row) ==
    LET put(p, monthnum, groups) ==
            IF Raised(groups) THEN groups ELSE Return(setitem(p, monthnum, groups.val))
        in_month(p, monthnum) ==
            put(p, monthnum,
                group_store(setdefault(getitem(p, monthnum), row[3],
                                       [adj |-> None, unadj |-> None]),
                            row[3], row[2], row[4]))
        store(monthnum) ==
            IF Raised(monthnum) THEN monthnum
            ELSE in_month(setdefault(proc, monthnum.val, <<>>), monthnum.val)
    IN  IF Len(row) # 4 THEN Raise("ValueError") ELSE store(int(row[1]))

RECURSIVE process_group_file_loop(_, _, _)
process_group_file_loop(rows, i, proc) ==
    LET next(r) == IF Raised(r) THEN r ELSE process_group_file_loop(rows, i + 1, r.val)
    IN  IF i > Len(rows) THEN Return(proc) ELSE next(process_group_file_row(proc, rows[i]))

(* if groupname in TEXT_FIXES.keys(): TEXT_FIXES[groupname] else groupname *)
text_fix(groupname) ==
    IF groupname \in DOMAIN TEXT_FIXES THEN TEXT_FIXES[groupname] ELSE groupname

(* [monthnum, actual_date(monthnum), value["adj"], value["unadj"], label] *)
group_record(monthnum, d, value, groupname) ==
    <<monthnum, d, value.adj, value.unadj, text_fix(groupname)>>

(* for groupname, value in group.items(): data.append([...]) *)
RECURSIVE group_records(_, _, _, _)
group_records(monthnum, group, j, data) ==
    LET next(d) ==
            IF Raised(d) THEN d
            ELSE group_records(monthnum, group, j + 1,
                     Append(data, group_record(monthnum, d.val, group[j][2], group[j][1])))
    IN  IF j > Len(group) THEN Return(data) ELSE next(actual_date(monthnum))

(* for monthnum, group in proc.items(): ... *)
RECURSIVE month_group_records(_, _, _)
month_group_records(proc, i, data) ==
    LET next(r) == IF Raised(r) THEN r ELSE month_group_records(proc, i + 1, r.val)
    IN  IF i > Len(proc) THEN Return(data)
        ELSE next(group_records(proc[i][1], proc[i][2], 1, data))

process_group_file(rows, output_schema) ==
    LET flatten(proc) ==
            IF Raised(proc) THEN proc
            ELSE sort_and_return(month_group_records(proc.val, 1, <<>>), output_schema,
                                 GROUP_KINDS)
    IN  flatten(process_group_file_loop(rows, 1, <<>>))

process_group_age_vol(rows) == process_group_file(rows, GROUP_VOL_OUTPUT_SCHEMA(AGE))

process_group_income_vol(rows) == process_group_file(rows, GROUP_VOL_OUTPUT_SCHEMA(INCOME))

process_group_score_vol(rows) == process_group_file(rows, GROUP_VOL_OUTPUT_SCHEMA(SCORE))

-----------------------------------------------------------------------------
(* process_group_yoy_groups *)

(* The kinds of a grouped year-over-year record: month, date, one slot per   *)
(* group name.                                                               *)
yoy_kinds(group_names) ==
    <<"int", "str">> \o [i \in 1..Len(group_names) |-> "opt"]

(* {gname: None for gname in group_names} *)
empty_slots(group_names) == [i \in 1..Len(group_names) |-> <<group_names[i], None>>]

(* if group in group_names: proc[monthnum][group] = value, else TypeError *)
yoy_store(proc, monthnum, group, value, group_names) ==
    IF in_list(group, group_names)
    THEN Return(setitem(proc, monthnum, setitem(getitem(proc, monthnum), group, Some(value))))
    ELSE Raise("TypeError")

(* The loop body: the month's slots are created on first sight, then the     *)
(* value is stored.                                                          *)
process_group_yoy_groups_row(proc, row, group_names) ==
    LET store(monthnum) ==
            IF Raised(monthnum) THEN monthnum
            ELSE yoy_store(setdefault(proc, monthnum.val, empty_slots(group_names)),
                           monthnum.val, row[3], row[2], group_names)
    IN  IF Len(row) # 3 THEN Raise("ValueError") ELSE store(int(row[1]))

RECURSIVE process_group_yoy_groups_loop(_, _, _, _)
process_group_yoy_groups_loop(rows, i, proc, group_names) ==
    LET next(r) ==
            IF Raised(r) THEN r
            ELSE process_group_yoy_groups_loop(rows, i + 1, r.val, group_names)
    IN  IF i > Len(rows) THEN Return(proc)
        ELSE next(process_group_yoy_groups_row(proc, rows[i], group_names))

(* The record of one month mutated: the slots in the reverse of the order of  *)
(* group_names.                                                              *)
yoy_record_reversed(monthnum, d, values, group_names) ==
    <<monthnum, d>>
    \o [i \in 1..Len(group_names) |-> getitem(values, group_names[Len(group_names) + 1 - i])]

(* [monthnum, actual_date(monthnum)] + [values[gname] for gname in group_names] *)
yoy_record(monthnum, d, values, group_names) ==
    <<monthnum, d>> \o [i \in 1..Len(group_names) |-> getitem(values, group_names[i])]

RECURSIVE yoy_records(_, _, _, _)
yoy_records(proc, i, data, group_names) ==
    LET next(d) ==
            IF Raised(d) THEN d
            ELSE yoy_records(proc, i + 1,
                     Append(data, yoy_record(proc[i][1], d.val, proc[i][2], group_names)),
                     group_names)
    IN  IF i > Len(proc) THEN Return(data) ELSE next(actual_date(proc[i][1]))

process_group_yoy_groups(rows, group_names, output_schema) ==
    LET flatten(proc) ==
            IF Raised(proc) THEN proc
            ELSE sort_and_return(yoy_records(proc.val, 1, <<>>, group_names), output_schema,
                                 yoy_kinds(group_names))
    IN  flatten(process_group_yoy_groups_loop(rows, 1, <<>>, group_names))

(* output_schema += [postfix.format(gname) for gname in cols], postfix "{}_yoy" *)
yoy_schema(cols) == GROUP_YOY_OUTPUT_SCHEMA \o [i \in 1..Len(cols) |-> cols[i] \o "_yoy"]

process_group_age_yoy(rows) == process_group_yoy_groups(rows, AGE_YOY, yoy_schema(AGE_YOY_COLS))

process_group_income_yoy(rows) ==
    process_group_yoy_groups(rows, INCOME_YOY, yoy_schema(INCOME_YOY_COLS))

process_group_score_yoy(rows) ==
    process_group_yoy_groups(rows, SCORE_YOY, yoy_schema(SCORE_YOY_COLS))

-----------------------------------------------------------------------------
(* process_yoy_summary *)

(* proc[monthnum]["num"] = value when the type label has "number",           *)
(* proc[monthnum]["vol"] = value when it has "volume", else TypeError.       *)
yoy_summary_store(proc, monthnum, value, type_str) ==
    IF contains("number", lower(type_str))
    THEN Return(setitem(proc, monthnum, [getitem(proc, monthnum) EXCEPT !.num = Some(value)]))
    ELSE IF contains("volume", lower(type_str))
    THEN Return(setitem(proc, monthnum, [getitem(proc, monthnum) EXCEPT !.vol = Some(value)]))
    ELSE Raise("TypeError")

process_yoy_summary_row(proc, row) ==
    LET store(monthnum) ==
            IF Raised(monthnum) THEN monthnum
            ELSE yoy_summary_store(setdefault(proc, monthnum.val, [num |-> None, vol |-> None]),
                                   monthnum.val, row[2], row[3])
    IN  IF Len(row) # 3 THEN Raise("ValueError") ELSE store(int(row[1]))

RECURSIVE process_yoy_summary_loop(_, _, _)
process_yoy_summary_loop(rows, i, proc) ==
    LET next(r) == IF Raised(r) THEN r ELSE process_yoy_summary_loop(rows, i + 1, r.val)
    IN  IF i > Len(rows) THEN Return(proc) ELSE next(process_yoy_summary_row(proc, rows[i]))

(* [monthnum, actual_date(monthnum), value["num"], value["vol"]] *)
RECURSIVE yoy_summary_records(_, _, _)
yoy_summary_records(proc, i, data) ==
    LET next(d) ==
            IF Raised(d) THEN d
            ELSE yoy_summary_records(proc, i + 1,
                     Append(data, <<proc[i][1], d.val, proc[i][2].num, proc[i][2].vol>>))
    IN  IF i > Len(proc) THEN Return(data) ELSE next(actual_date(proc[i][1]))

process_yoy_summary(rows, output_schema) ==
    LET flatten(proc) ==
            IF Raised(proc) THEN proc
            ELSE sort_and_return(yoy_summary_records(proc.val, 1, <<>>), output_schema,
                                 SUMMARY_KINDS)
    IN  flatten(process_yoy_summary_loop(rows, 1, <<>>))

-----------------------------------------------------------------------------
(* FILE_PREFIXES: the handler of each recognised filename prefix, applied to *)
(* the rows load_csv reads from the file.                                    *)

FILE_PREFIXES ==
    {"map_data", "num_data", "vol_data", "volume_data_age_group",
     "volume_data_income_level", "volume_data_score_level", "yoy_data_all",
     "yoy_data_age_group", "yoy_data_income_level", "yoy_data_score_level"}

call_handler(key, rows) ==
    CASE key = "map_data" -> process_map(rows, MAP_OUTPUT_SCHEMA)
      [] key = "num_data" -> process_num_summary(rows)
      [] key = "vol_data" -> process_vol_summary(rows)
      [] key = "volume_data_age_group" -> process_group_age_vol(rows)
      [] key = "volume_data_income_level" -> process_group_income_vol(rows)
      [] key = "volume_data_score_level" -> process_group_score_vol(rows)
      [] key = "yoy_data_all" -> process_yoy_summary(rows, YOY_SUMMARY_OUTPUT_SCHEMA)
      [] key = "yoy_data_age_group" -> process_group_age_yoy(rows)
      [] key = "yoy_data_income_level" -> process_group_income_yoy(rows)
      [] key = "yoy_data_score_level" -> process_group_score_yoy(rows)

-----------------------------------------------------------------------------
(* process_data_files *)

(* The directory the batch reads: each file's name and the rows load_csv     *)
(* returns for it (the header line already dropped).                         *)
DIRECTORY ==
    ("num_data_AUT.csv" :> << <<"0", "5", "Seasonally Adjusted">>, <<"0", "3", "Unadjusted">> >>)
    @@ ("map_data_STU.csv" :> << <<"6", "10">>, <<"48", "2.5">> >>)
    @@ ("yoy_data_all_PER.csv" :> <<>>)
    @@ ("vol_data_CRC.csv" :> << <<"0", "5", "Seasonally Adjusted">>, <<"1", "7", "N/A">> >>)
    @@ ("yoy_data_age_group_HLC.csv" :> << <<"0", "1", "Unknown">> >>)
    @@ ("map_data_MTG.csv" :> << <<"3", "10">> >>)
    @@ ("new_data_RET.csv" :> << <<"0", "5">> >>)
    @@ ("num_data_XXX.csv" :> << <<"0", "5", "Seasonally Adjusted">> >>)
    @@ ("notes.txt" :> <<>>)

load_csv(filename) == DIRECTORY[filename]

(* s.endswith(suffix) *)
endswith(s, suffix) ==
    Len(s) >= Len(suffix) /\ SubSeq(s, Len(s) - Len(suffix) + 1, Len(s)) = suffix

(* get_csv_list: the names of the listing that end in ".csv", in its order. *)
get_csv_list(files) == SelectSeq(files, LAMBDA f : endswith(lower(f), ".csv"))

(* find_market: the name of the first market whose code the file name        *)
(* contains, None when there is none.                                        *)
RECURSIVE find_market_from(_, _)
find_market_from(input, i) ==
    IF i > Len(MARKET_NAMES) THEN None
    ELSE IF contains(MARKET_NAMES[i][1], input) THEN Some(MARKET_NAMES[i][2])
    ELSE find_market_from(input, i + 1)

find_market(input) == find_market_from(input, 1)

(* filename[:-8].lower() *)
file_prefix(filename) == lower(SubSeq(filename, 1, Len(filename) - 8))

(* FILE_PREFIXES[key](filepath): KeyError for a key that is not in the table. *)
dispatch(key, filename) ==
    IF key \in FILE_PREFIXES THEN call_handler(key, load_csv(filename)) ELSE Raise("KeyError")

(* save_csv writes the content and returns True. *)
save_csv(files, market, filename, content) == Append(files, <<market, filename, content>>)

(* One iteration of "for filename in inputfiles", from the state st of the   *)
(* lists; exc is the exception that left the loop, None if none did.         *)
loop_body(filename, st) ==
    LET failed == [st EXCEPT !.failures = Append(st.failures, filename)]
        succeeded(market, data) ==
            [st EXCEPT !.successes = Append(st.successes, filename),
                       !.saved = IF Len(data) > 0
                                 THEN save_csv(st.saved, market, filename, data)
                                 ELSE st.saved]
        handled(market, r) ==
            IF Raised(r) THEN [st EXCEPT !.exc = Some(r.exc)]
            ELSE IF r.val[1] THEN succeeded(market, r.val[2])
            ELSE failed
        with_market(market) ==
            IF market = None THEN failed
            ELSE handled(market[1], dispatch(file_prefix(filename), filename))
    IN  with_market(find_market(filename))

-----------------------------------------------------------------------------
(* The inputs of the model. *)

MaxRows == 3

MaxFiles == 3

MaxMonth == 30

(* All lists of at most n elements of S. *)
ListsUpTo(S, n) == UNION {[1..k -> S] : k \in 0..n}

NoRepeat(lst) == \A i, j \in 1..Len(lst) : lst[i] = lst[j] => i = j

MapRows == {<<code, value>> : code \in {"6", "06", "48", "3"}, value \in {"10", "2.5"}}

SummaryRows ==
    {<<m, value, marker>> : m \in {"0", "1", "01"}, value \in {"5", "3"},
                            marker \in {"Seasonally Adjusted", "N/A"}}

VolSummaryRows ==
    {<<m, value, marker>> : m \in {"0", "1"}, value \in {"5", "3"},
                            marker \in {"seasonal", "UNADJUSTED", ""}}

AgeVolRows ==
    {<<m, value, group, marker>> :
        m \in {"0", "1"}, value \in {"1"}, group \in {"30 - 44", "Age 30-44"},
        marker \in {"Seasonally Adjusted", "adjusted"}}

IncomeVolRows ==
    {<<m, value, group, marker>> :
        m \in {"0"}, value \in {"1", "2"}, group \in {"Low", "High"},
        marker \in {"Seasonally Adjusted", "Unadjusted"}}

ScoreVolRows ==
    {<<m, value, group, marker>> :
        m \in {"3", "12"}, value \in {"9"}, group \in {"Deep Subprime", "Prime"},
        marker \in {"Unadjusted", "?"}}

YoySummaryRows ==
    {<<m, value, type>> : m \in {"0", "1"}, value \in {"5", "3"},
                          type \in {"Number of Loans", "Dollar Volume", "Other"}}

AgeYoyRows ==
    {<<m, value, group>> : m \in {"0", "1"}, value \in {"1", "2"},
                           group \in {"65 and older", "Younger than 30", "Unknown"}}

IncomeYoyRows ==
    {<<m, value, group>> : m \in {"0", "01"}, value \in {"1"},
                           group \in {"High", "Low", "Middle", "low"}}

ScoreYoyRows ==
    {<<m, value, group>> : m \in {"5"}, value \in {"1", "2"},
                           group \in {"Superprime", "Deep Subprime", "Prime", "Super-prime"}}

RowsOf(key) ==
    CASE key = "map_data" -> MapRows
      [] key = "num_data" -> SummaryRows
      [] key = "vol_data" -> VolSummaryRows
      [] key = "volume_data_age_group" -> AgeVolRows
      [] key = "volume_data_income_level" -> IncomeVolRows
      [] key = "volume_data_score_level" -> ScoreVolRows
      [] key = "yoy_data_all" -> YoySummaryRows
      [] key = "yoy_data_age_group" -> AgeYoyRows
      [] key = "yoy_data_income_level" -> IncomeYoyRows
      [] key = "yoy_data_score_level" -> ScoreYoyRows

-----------------------------------------------------------------------------
(* Spec: one call of a handler of FILE_PREFIXES on the rows of one file. *)

NoDateCall == month = 0 /\ date = Pending

NoHandlerCall == prefix = "" /\ inputdata = <<>> /\ ret = Pending

NoBatch ==
    /\ listing = <<>> /\ inputfiles = <<>> /\ idx = 0 /\ successes = <<>>
    /\ failures = <<>> /\ saved = <<>> /\ batch = Pending

Init ==
    /\ prefix \in FILE_PREFIXES
    /\ inputdata \in ListsUpTo(RowsOf(prefix), MaxRows)
    /\ ret = Pending
    /\ NoDateCall
    /\ NoBatch

HandlerFrame ==
    UNCHANGED <<month, date, prefix, inputdata, listing, inputfiles, idx, successes,
                failures, saved, batch>>

ProcessMap ==
    /\ ret = Pending
    /\ prefix = "map_data"
    /\ ret' = process_map(inputdata, MAP_OUTPUT_SCHEMA)
    /\ HandlerFrame

ProcessFileSummary ==
    /\ ret = Pending
    /\ prefix \in {"num_data", "vol_data"}
    /\ ret' = IF prefix = "num_data" THEN process_num_summary(inputdata)
              ELSE process_vol_summary(inputdata)
    /\ HandlerFrame

ProcessGroupFile ==
    /\ ret = Pending
    /\ prefix \in {"volume_data_age_group", "volume_data_income_level",
                   "volume_data_score_level"}
    /\ ret' = CASE prefix = "volume_data_age_group" -> process_group_age_vol(inputdata)
                [] prefix = "volume_data_income_level" -> process_group_income_vol(inputdata)
                [] prefix = "volume_data_score_level" -> process_group_score_vol(inputdata)
    /\ HandlerFrame

ProcessGroupYoyGroups ==
    /\ ret = Pending
    /\ prefix \in {"yoy_data_age_group", "yoy_data_income_level", "yoy_data_score_level"}
    /\ ret' = CASE prefix = "yoy_data_age_group" -> process_group_age_yoy(inputdata)
                [] prefix = "yoy_data_income_level" -> process_group_income_yoy(inputdata)
                [] prefix = "yoy_data_score_level" -> process_group_score_yoy(inputdata)
    /\ HandlerFrame

ProcessYoySummary ==
    /\ ret = Pending
    /\ prefix = "yoy_data_all"
    /\ ret' = process_yoy_summary(inputdata, YOY_SUMMARY_OUTPUT_SCHEMA)
    /\ HandlerFrame

Next ==
    \/ ProcessMap
    \/ ProcessFileSummary
    \/ ProcessGroupFile
    \/ ProcessGroupYoyGroups
    \/ ProcessYoySummary

Spec == Init /\ [][Next]_vars

-----------------------------------------------------------------------------
(* SpecDate: one call of actual_date. The months are those around zero and   *)
(* those around the first and the last month whose year datetime accepts.    *)

FirstMonth == (STRFTIME_MINYEAR - BASE_YEAR) * MONTHS_PER_YEAR

LastMonth == (MAXYEAR - BASE_YEAR + 1) * MONTHS_PER_YEAR - 1

Months ==
    ((0 - MaxMonth)..MaxMonth)
    \cup ((FirstMonth - MONTHS_PER_YEAR)..(FirstMonth + MONTHS_PER_YEAR))
    \cup ((LastMonth - MONTHS_PER_YEAR)..(LastMonth + MONTHS_PER_YEAR))

InitDate ==
    /\ month \in Months
    /\ date = Pending
    /\ NoHandlerCall
    /\ NoBatch

ActualDate ==
    /\ date = Pending
    /\ date' = actual_date(month)
    /\ UNCHANGED <<month, prefix, inputdata, ret, listing, inputfiles, idx, successes,
                   failures, saved, batch>>

SpecDate == InitDate /\ [][ActualDate]_vars

-----------------------------------------------------------------------------
(* SpecBatch: one run of process_data_files over a directory that holds some *)
(* files of DIRECTORY, listed in any order.                                  *)

InitBatch ==
    /\ listing \in {l \in ListsUpTo(DOMAIN DIRECTORY, MaxFiles) : NoRepeat(l)}
    /\ inputfiles = get_csv_list(listing)
    /\ idx = 0
    /\ successes = <<>>
    /\ failures = <<>>
    /\ saved = <<>>
    /\ batch = Pending
    /\ NoDateCall
    /\ NoHandlerCall

(* One iteration of the loop; an exception leaves process_data_files. *)
ProcessNextFile ==
    /\ batch = Pending
    /\ idx < Len(inputfiles)
    /\ LET apply(st) ==
               /\ successes' = st.successes
               /\ failures' = st.failures
               /\ saved' = st.saved
               /\ batch' = IF st.exc = None THEN Pending ELSE Raise(st.exc[1])
       IN  apply(loop_body(inputfiles[idx + 1],
                           [successes |-> successes, failures |-> failures,
                            saved |-> saved, exc |-> None]))
    /\ idx' = idx + 1
    /\ UNCHANGED <<month, date, prefix, inputdata, ret, listing, inputfiles>>

(* The loop is over: return len(successes), len(inputfiles). *)
ReturnCounts ==
    /\ batch = Pending
    /\ idx = Len(inputfiles)
    /\ batch' = Return(<<Len(successes), Len(inputfiles)>>)
    /\ UNCHANGED <<month, date, prefix, inputdata, ret, listing, inputfiles, idx,
                   successes, failures, saved>>

NextBatch == ProcessNextFile \/ ReturnCounts

SpecBatch == InitBatch /\ [][NextBatch]_vars

-----------------------------------------------------------------------------
(* SpecSummary: one call of process_num_summary or process_vol_summary on    *)
(* rows with the two markers of the data and a third, "Not Seasonally        *)
(* Adjusted".                                                                *)

PairRows ==
    {<<m, value, marker>> :
        m \in {"0", "1"}, value \in {"5", "3", "7"},
        marker \in {"Seasonally Adjusted", "Not Seasonally Adjusted", "Unadjusted"}}

InitSummary ==
    /\ prefix \in {"num_data", "vol_data"}
    /\ inputdata \in ListsUpTo(PairRows, MaxRows)
    /\ ret = Pending
    /\ NoDateCall
    /\ NoBatch

SpecSummary == InitSummary /\ [][ProcessFileSummary]_vars

-----------------------------------------------------------------------------
(* SpecGroupFile: one call of a grouped volume handler on rows whose values  *)
(* sort differently as text and as numbers.                                  *)

SortedAgeVolRows ==
    {<<m, value, group, marker>> :
        m \in {"0", "1"}, value \in {"10", "9"}, group \in {"30 - 44", "Younger than 30"},
        marker \in {"Seasonally Adjusted", "Unadjusted"}}

SortedIncomeVolRows ==
    {<<m, value, group, marker>> :
        m \in {"1"}, value \in {"10", "9"}, group \in {"Low", "High"},
        marker \in {"Seasonally Adjusted", "Unadjusted"}}

SortedScoreVolRows ==
    {<<m, value, group, marker>> :
        m \in {"0", "1"}, value \in {"9"}, group \in {"Superprime", "Prime"},
        marker \in {"Seasonally Adjusted", "Unadjusted"}}

InitGroupFile ==
    /\ prefix \in {"volume_data_age_group", "volume_data_income_level",
                   "volume_data_score_level"}
    /\ inputdata \in ListsUpTo(CASE prefix = "volume_data_age_group" -> SortedAgeVolRows
                                 [] prefix = "volume_data_income_level" -> SortedIncomeVolRows
                                 [] prefix = "volume_data_score_level" -> SortedScoreVolRows,
                               MaxRows)
    /\ ret = Pending
    /\ NoDateCall
    /\ NoBatch

SpecGroupFile == InitGroupFile /\ [][ProcessGroupFile]_vars

-----------------------------------------------------------------------------
(* SpecYoyGroups: one call of a grouped year-over-year handler on rows whose *)
(* group labels are all in the handler's list.                               *)

ValidAgeYoyRows ==
    {<<m, value, group>> : m \in {"0", "1"}, value \in {"1", "2"},
                           group \in {"65 and older", "Younger than 30", "30 - 44"}}

ValidIncomeYoyRows ==
    {<<m, value, group>> : m \in {"0", "1"}, value \in {"1", "2"},
                           group \in {"High", "Low"}}

ValidScoreYoyRows ==
    {<<m, value, group>> : m \in {"2", "11"}, value \in {"7"},
                           group \in {"Superprime", "Deep Subprime", "Subprime", "Prime",
                                      "Near Prime"}}

InitYoyGroups ==
    /\ prefix \in {"yoy_data_age_group", "yoy_data_income_level", "yoy_data_score_level"}
    /\ inputdata \in ListsUpTo(CASE prefix = "yoy_data_age_group" -> ValidAgeYoyRows
                                 [] prefix = "yoy_data_income_level" -> ValidIncomeYoyRows
                                 [] prefix = "yoy_data_score_level" -> ValidScoreYoyRows,
                               MaxRows)
    /\ ret = Pending
    /\ NoDateCall
    /\ NoBatch

SpecYoyGroups == InitYoyGroups /\ [][ProcessGroupYoyGroups]_vars

-----------------------------------------------------------------------------
(* The data records of a returned body. *)

(* The data records of the body a call returned: the body without its header. *)
DataRecords(r) == IF r.val[2] = <<>> THEN <<>> ELSE Tail(r.val[2])

HasRecord(r, rec) == \E k \in 1..Len(DataRecords(r)) : DataRecords(r)[k] = rec

-----------------------------------------------------------------------------
(* C1 *)

C1_MonthIndex == ("0" :> 0) @@ ("1" :> 1)

C1_Date == ("0" :> "2000-01") @@ ("1" :> "2000-02")

C1_Header ==
    IF prefix = "num_data" THEN <<"month", "date", "num", "num_unadj">>
    ELSE <<"month", "date", "vol", "vol_unadj">>

C1_Example(marker) ==
    << <<"0", "5", "Seasonally Adjusted">>, <<"0", "3", marker>>,
       <<"1", "7", "Seasonally Adjusted">> >>

(* A month whose only rows are one marked "Seasonally Adjusted" (value a)   *)
(* and one marked unadj_marker (value u) is emitted as [month, date, a, u]; *)
(* a month whose only row is marked "Seasonally Adjusted" is emitted as     *)
(* [month, date, a, None].                                                  *)
C1_PairEmitted(unadj_marker) ==
    \A m \in {"0", "1"} :
        LET I == {i \in 1..Len(inputdata) : inputdata[i][1] = m}
        IN  /\ \A i, j \in I :
                  (/\ I = {i, j}
                   /\ i # j
                   /\ inputdata[i][3] = "Seasonally Adjusted"
                   /\ inputdata[j][3] = unadj_marker)
                  => HasRecord(ret, <<C1_MonthIndex[m], C1_Date[m],
                                      Some(inputdata[i][2]), Some(inputdata[j][2])>>)
            /\ \A i \in I :
                  (I = {i} /\ inputdata[i][3] = "Seasonally Adjusted")
                  => HasRecord(ret, <<C1_MonthIndex[m], C1_Date[m],
                                      Some(inputdata[i][2]), None>>)

(* C1 as stated: in process_file_summary a month with one "Seasonally       *)
(* Adjusted" row (a) and one "Not Seasonally Adjusted" row (u) is emitted   *)
(* as [month, date, a, u], a month with only a "Seasonally Adjusted" row    *)
(* has a null unadjusted field, and the rows (0,"5","Seasonally Adjusted"), *)
(* (0,"3","Not Seasonally Adjusted"), (1,"7","Seasonally Adjusted") give    *)
(* header, [0,"2000-01","5","3"], [1,"2000-02","7",null].                   *)
C1_Original ==
    ret # Pending =>
        /\ Returned(ret)
        /\ C1_PairEmitted("Not Seasonally Adjusted")
        /\ inputdata = C1_Example("Not Seasonally Adjusted")
           => ret.val = <<TRUE, <<C1_Header, <<0, "2000-01", Some("5"), Some("3")>>,
                                  <<1, "2000-02", Some("7"), None>> >> >>

(* C1 amended: the unadjusted slot is filled by a row whose marker contains *)
(* "unadjust", such as "Unadjusted": a month with one "Seasonally Adjusted" *)
(* row (a) and one "Unadjusted" row (u) is emitted as [month, date, a, u],  *)
(* a month with only a "Seasonally Adjusted" row has a null unadjusted      *)
(* field, and the example rows with "Unadjusted" as the second marker give  *)
(* header, [0,"2000-01","5","3"], [1,"2000-02","7",null]. "Not Seasonally   *)
(* Adjusted" contains "seasonal" and not "unadjust", so it fills the        *)
(* adjusted slot: the example rows as written give header,                  *)
(* [0,"2000-01","3",null], [1,"2000-02","7",null].                          *)
C1_PairMergedByUnadjustMarker ==
    ret # Pending =>
        /\ Returned(ret)
        /\ C1_PairEmitted("Unadjusted")
        /\ inputdata = C1_Example("Unadjusted")
           => ret.val = <<TRUE, <<C1_Header, <<0, "2000-01", Some("5"), Some("3")>>,
                                  <<1, "2000-02", Some("7"), None>> >> >>
        /\ inputdata = C1_Example("Not Seasonally Adjusted")
           => ret.val = <<TRUE, <<C1_Header, <<0, "2000-01", Some("3"), None>>,
                                  <<1, "2000-02", Some("7"), None>> >> >>

(* The example rows, with "Unadjusted" as the second marker, have been      *)
(* transformed.                                                             *)
C1_Witness == Returned(ret) /\ inputdata = C1_Example("Unadjusted")

-----------------------------------------------------------------------------
(* C2 *)

(* The files of DIRECTORY whose transform hits a fatal condition: an         *)
(* unrecognised marker, an illegal group label, an unmapped FIPS code, an    *)
(* unrecognised filename prefix.                                             *)
C2_FatalFiles ==
    {"vol_data_CRC.csv", "yoy_data_age_group_HLC.csv", "map_data_MTG.csv",
     "new_data_RET.csv"}

C2_Recorded(filename, lst) == \E k \in 1..Len(lst) : lst[k] = filename

(* C2 as stated: in process_data_files, wherever a file whose transform hits *)
(* a fatal condition stands in the list, the run goes on to the end of the   *)
(* list and returns, the file is recorded as failed, and every file of the   *)
(* list has been processed (recorded as a success or as a failure).          *)
C2_BadFileNeverHalts ==
    batch # Pending =>
        /\ Returned(batch)
        /\ idx = Len(inputfiles)
        /\ \A i \in 1..Len(inputfiles) :
              /\ C2_Recorded(inputfiles[i], successes) \/ C2_Recorded(inputfiles[i], failures)
              /\ inputfiles[i] \in C2_FatalFiles => C2_Recorded(inputfiles[i], failures)

-----------------------------------------------------------------------------
(* C3 *)

C3_Header ==
    ("map_data" :> <<"fips_code", "state_abbr", "value">>)
    @@ ("num_data" :> <<"month", "date", "num", "num_unadj">>)
    @@ ("vol_data" :> <<"month", "date", "vol", "vol_unadj">>)
    @@ ("volume_data_age_group" :> <<"month", "date", "vol", "vol_unadj", "age_group">>)
    @@ ("volume_data_income_level" :>
            <<"month", "date", "vol", "vol_unadj", "income_level_group">>)
    @@ ("volume_data_score_level" :>
            <<"month", "date", "vol", "vol_unadj", "credit_score_group">>)
    @@ ("yoy_data_all" :> <<"month", "date", "yoy_num", "yoy_vol">>)
    @@ ("yoy_data_age_group" :>
            <<"month", "date", "younger-than-30_yoy", "30-44_yoy", "45-64_yoy",
              "65-and-older_yoy">>)
    @@ ("yoy_data_income_level" :>
            <<"month", "date", "low_yoy", "moderate_yoy", "middle_yoy", "high_yoy">>)
    @@ ("yoy_data_score_level" :>
            <<"month", "date", "deep-subprime_yoy", "subprime_yoy", "near-prime_yoy",
              "prime_yoy", "super-prime_yoy">>)

(* C3: the body each of the five transforms returns is either empty or the   *)
(* header row followed by at least one data row, and a call on zero input    *)
(* rows returns (True, empty body), never a header-only body.                *)
C3_BodyEmptyOrHeaderAndData ==
    /\ Returned(ret) =>
          /\ ret.val[1] = TRUE
          /\ \/ ret.val[2] = <<>>
             \/ Len(ret.val[2]) >= 2 /\ ret.val[2][1] = C3_Header[prefix]
    /\ (ret # Pending /\ inputdata = <<>>) => ret = Return(<<TRUE, <<>>>>)

(* A transform has been called on zero rows and has returned. *)
C3_Witness == inputdata = <<>> /\ Returned(ret)

-----------------------------------------------------------------------------
(* C4 *)

C4_Key(rec) ==
    IF prefix \in {"volume_data_age_group", "volume_data_income_level",
                   "volume_data_score_level"}
    THEN <<rec[1], rec[5]>>
    ELSE <<rec[1]>>

(* C4 as stated: the data records a transform emits for valid rows are       *)
(* uniquely keyed: no two records of a summary, summary-YOY or grouped-YOY   *)
(* output have the same month index, and no two records of a grouped-volume  *)
(* output have the same (month index, emitted group label).                  *)
C4_UniquelyKeyed ==
    (Returned(ret) /\ prefix # "map_data") =>
        \A i, j \in 1..Len(DataRecords(ret)) :
            i # j => C4_Key(DataRecords(ret)[i]) # C4_Key(DataRecords(ret)[j])

-----------------------------------------------------------------------------
(* C5 *)

(* The rows of the inputs that fail validation: a marker with neither        *)
(* "unadjust" nor "seasonal", a type label with neither "number" nor         *)
(* "volume", a group label outside the handler's list.                       *)
C5_Invalid(row) ==
    CASE prefix \in {"num_data", "vol_data"} -> row[3] \in {"N/A", ""}
      [] prefix \in {"volume_data_age_group", "volume_data_income_level",
                     "volume_data_score_level"} -> row[4] \in {"adjusted", "?"}
      [] prefix = "yoy_data_all" -> row[3] = "Other"
      [] prefix \in {"yoy_data_age_group", "yoy_data_income_level",
                     "yoy_data_score_level"} -> row[3] \in {"Unknown", "low", "Super-prime"}
      [] OTHER -> FALSE

(* C5: when a row at any position fails validation, the transform raises and *)
(* returns no body, whatever valid rows come before or after the bad row.    *)
C5_InvalidRowAborts ==
    (ret # Pending /\ \E i \in 1..Len(inputdata) : C5_Invalid(inputdata[i])) => Raised(ret)

(* The summary transform has raised on a bad row between two valid rows. *)
C5_Witness ==
    /\ prefix = "num_data"
    /\ inputdata = << <<"0", "5", "Seasonally Adjusted">>, <<"1", "3", "N/A">>,
                      <<"0", "3", "Seasonally Adjusted">> >>
    /\ Raised(ret)

-----------------------------------------------------------------------------
(* C7 *)

C7_Code == ("6" :> 6) @@ ("06" :> 6) @@ ("48" :> 48) @@ ("3" :> 3)

C7_Abbr == (6 :> "CA") @@ (48 :> "TX")

C7_AllMapped == \A i \in 1..Len(inputdata) : C7_Code[inputdata[i][1]] \in DOMAIN C7_Abbr

C7_HeaderAndRecords ==
    <<TRUE, << <<"fips_code", "state_abbr", "value">> >>
            \o [i \in 1..Len(inputdata) |->
                    <<inputdata[i][1], C7_Abbr[C7_Code[inputdata[i][1]]], inputdata[i][2]>>]>>

(* C7 as stated: in process_map, when every input code is in the FIPS table  *)
(* the output is the header followed by one record [raw code, abbreviation,  *)
(* raw value] per input row in input order (code 6 gives "CA"); when a row   *)
(* has a code that is not in the table (3) the transform raises.             *)
C7_Original ==
    (ret # Pending /\ prefix = "map_data") =>
        IF C7_AllMapped THEN ret = Return(C7_HeaderAndRecords) ELSE Raised(ret)

(* C7 amended: the same for at least one input row; for zero input rows the  *)
(* output is the empty body, without the header.                             *)
C7_MapRecordsOrError ==
    (ret # Pending /\ prefix = "map_data") =>
        IF inputdata = <<>> THEN ret = Return(<<TRUE, <<>>>>)
        ELSE IF C7_AllMapped THEN ret = Return(C7_HeaderAndRecords)
        ELSE Raised(ret)

(* Two rows with mapped codes, the first with code 6, have been transformed. *)
C7_Witness ==
    /\ prefix = "map_data"
    /\ Len(inputdata) = 2
    /\ Returned(ret)
    /\ DataRecords(ret)[1] = <<"6", "CA", "10">>

-----------------------------------------------------------------------------
(* C8 *)

C8_Digit == <<"0", "1", "2", "3", "4", "5", "6", "7", "8", "9">>

(* The decimal digits of n >= 0. *)
RECURSIVE C8_Decimal(_)
C8_Decimal(n) ==
    IF n < 10 THEN C8_Digit[n + 1] ELSE C8_Decimal(n \div 10) \o C8_Digit[(n % 10) + 1]

(* The "YYYY-MM" label of a year from 2000 on and a month of 1..12. *)
C8_Label(y, mo) ==
    C8_Decimal(y) \o "-" \o C8_Digit[(mo \div 10) + 1] \o C8_Digit[(mo % 10) + 1]

(* The label of year 2000 + floor(m/12) and month (m mod 12) + 1, the month  *)
(* being in 1..12, with the three labels the statement gives.                *)
C8_LabelOfMonth(m) ==
    /\ ((m % 12) + 1) \in 1..12
    /\ date = Return(C8_Label(2000 + (m \div 12), (m % 12) + 1))
    /\ m = 0 => date.val = "2000-01"
    /\ m = 11 => date.val = "2000-12"
    /\ m = 12 => date.val = "2001-01"

-----------------------------------------------------------------------------
(* C9 *)

(* C9 as stated: actual_date(m) fails for every m < 0; it never returns a    *)
(* calendar label for a negative month index.                                *)
C9_NegativeMonthRejected == (date # Pending /\ month < 0) => Raised(date)

-----------------------------------------------------------------------------
(* C6 *)

C6_MonthIndex == ("0" :> 0) @@ ("1" :> 1) @@ ("2" :> 2) @@ ("11" :> 11)

C6_Date == (0 :> "2000-01") @@ (1 :> "2000-02") @@ (2 :> "2000-03") @@ (11 :> "2000-12")

(* The fixed category list of each grouped year-over-year handler. *)
C6_Categories ==
    ("yoy_data_age_group" :> <<"Younger than 30", "30 - 44", "45 - 64", "65 and older">>)
    @@ ("yoy_data_income_level" :> <<"Low", "Moderate", "Middle", "High">>)
    @@ ("yoy_data_score_level" :>
            <<"Deep Subprime", "Subprime", "Near Prime", "Prime", "Superprime">>)

C6_DistinctPairs ==
    \A i, j \in 1..Len(inputdata) :
        (inputdata[i][1] = inputdata[j][1] /\ inputdata[i][3] = inputdata[j][3]) => i = j

(* The months of the set of input rows. *)
C6_Months == {C6_MonthIndex[inputdata[i][1]] : i \in 1..Len(inputdata)}

C6_Least(S) == CHOOSE x \in S : \A y \in S : x <= y

RECURSIVE C6_Ascending(_)
C6_Ascending(S) ==
    IF S = {} THEN <<>> ELSE <<C6_Least(S)>> \o C6_Ascending(S \ {C6_Least(S)})

C6_RowsOf(m, label) ==
    {i \in 1..Len(inputdata) : C6_MonthIndex[inputdata[i][1]] = m /\ inputdata[i][3] = label}

(* The value of the row of month m with the label, null if there is none. *)
C6_Slot(m, label) ==
    IF C6_RowsOf(m, label) = {} THEN None
    ELSE Some(inputdata[CHOOSE i \in C6_RowsOf(m, label) : TRUE][2])

C6_Record(m, categories) ==
    <<m, C6_Date[m]>> \o [k \in 1..Len(categories) |-> C6_Slot(m, categories[k])]

(* The body the set of input rows determines: the header and one record per  *)
(* month in ascending order of the months; empty for no rows.                *)
C6_Body(months) ==
    IF months = <<>> THEN <<>>
    ELSE <<C3_Header[prefix]>>
         \o [k \in 1..Len(months) |-> C6_Record(months[k], C6_Categories[prefix])]

C6_Permuted(p) == [i \in 1..Len(inputdata) |-> inputdata[p[i]]]

(* C6: in process_group_yoy_groups, for valid rows with distinct (month,     *)
(* group) pairs, each record is [month, date, slot_1..slot_N] with slot_i    *)
(* the value of the row whose label is the i-th of the fixed category list   *)
(* (null if there is none), the records are in ascending order of the        *)
(* months, and every permutation of the rows gives the same output.          *)
C6_SlotsFixedWhateverRowOrder ==
    (ret # Pending /\ C6_DistinctPairs) =>
        /\ ret = Return(<<TRUE, C6_Body(C6_Ascending(C6_Months))>>)
        /\ \A p \in Permutations(1..Len(inputdata)) :
              call_handler(prefix, C6_Permuted(p)) = ret

(* Three rows, of the later month first and of the last category first,      *)
(* have been pivoted.                                                        *)
C6_Witness ==
    /\ prefix = "yoy_data_age_group"
    /\ inputdata = << <<"1", "1", "65 and older">>, <<"0", "2", "30 - 44">>,
                      <<"1", "2", "Younger than 30">> >>
    /\ Returned(ret)
    /\ DataRecords(ret) = << <<0, "2000-01", None, Some("2"), None, None>>,
                             <<1, "2000-02", Some("2"), None, None, Some("1")>> >>

-----------------------------------------------------------------------------
(* C10 *)

(* The byte-wise order of the labels the handlers emit for the input rows. *)
C10_LabelRank ==
    ("Age 30-44" :> 1) @@ ("High" :> 2) @@ ("Low" :> 3) @@ ("Prime" :> 4)
    @@ ("Super-prime" :> 5) @@ ("Younger than 30" :> 6)

(* The order of the values of the input rows: None before any string, "10"   *)
(* before "9".                                                               *)
C10_ValueRank(v) == IF v = None THEN 0 ELSE IF v = Some("10") THEN 1 ELSE 2

(* The order of (adjusted, unadjusted, label) as one number. *)
C10_TailRank(rec) ==
    (100 * C10_ValueRank(rec[3])) + (10 * C10_ValueRank(rec[4])) + C10_LabelRank[rec[5]]

(* C10 as stated: in process_group_file any two consecutive data records     *)
(* have ascending months and, when the months are equal, ascending emitted   *)
(* group labels, whatever the adjusted and unadjusted values are.            *)
C10_Original ==
    Returned(ret) =>
        \A k \in 1..(Len(DataRecords(ret)) - 1) :
            /\ DataRecords(ret)[k][1] <= DataRecords(ret)[k + 1][1]
            /\ DataRecords(ret)[k][1] = DataRecords(ret)[k + 1][1]
               => C10_LabelRank[DataRecords(ret)[k][5]]
                      <= C10_LabelRank[DataRecords(ret)[k + 1][5]]

(* C10 amended: any two consecutive data records have ascending months and,  *)
(* when the months are equal, ascending (adjusted, unadjusted, label): the   *)
(* values are compared before the label, as text, a null before any text.    *)
C10_MonthMajorThenValues ==
    Returned(ret) =>
        \A k \in 1..(Len(DataRecords(ret)) - 1) :
            /\ DataRecords(ret)[k][1] <= DataRecords(ret)[k + 1][1]
            /\ DataRecords(ret)[k][1] = DataRecords(ret)[k + 1][1]
               => C10_TailRank(DataRecords(ret)[k]) <= C10_TailRank(DataRecords(ret)[k + 1])

(* A body has been returned in which two consecutive records of one month    *)
(* have their labels in descending order.                                    *)
C10_Witness ==
    /\ Returned(ret)
    /\ \E k \in 1..(Len(DataRecords(ret)) - 1) :
          /\ DataRecords(ret)[k][1] = DataRecords(ret)[k + 1][1]
          /\ C10_LabelRank[DataRecords(ret)[k][5]] > C10_LabelRank[DataRecords(ret)[k + 1][5]]

-----------------------------------------------------------------------------
(* C11 *)

C11_Grouped ==
    prefix \in {"volume_data_age_group", "volume_data_income_level",
                "volume_data_score_level"}

C11_MonthIndex == ("0" :> 0) @@ ("1" :> 1) @@ ("01" :> 1) @@ ("3" :> 3) @@ ("12" :> 12)

C11_Date == (0 :> "2000-01") @@ (1 :> "2000-02") @@ (3 :> "2000-04") @@ (12 :> "2001-01")

(* The slot each marker or type label of the valid input rows goes to: 1 is  *)
(* the first value column (adjusted, number), 2 the second (unadjusted,      *)
(* volume).                                                                  *)
C11_SlotOf ==
    ("Seasonally Adjusted" :> 1) @@ ("seasonal" :> 1) @@ ("Number of Loans" :> 1)
    @@ ("Unadjusted" :> 2) @@ ("UNADJUSTED" :> 2) @@ ("Dollar Volume" :> 2)

(* The label emitted for each group label of the input rows. *)
C11_Label ==
    ("30 - 44" :> "Age 30-44") @@ ("Age 30-44" :> "Age 30-44") @@ ("Low" :> "Low")
    @@ ("High" :> "High") @@ ("Deep Subprime" :> "Deep subprime") @@ ("Prime" :> "Prime")

(* The key a row is merged under: the month, with the raw group label in a   *)
(* grouped volume file.                                                      *)
C11_KeyOf(row) ==
    IF C11_Grouped THEN <<C11_MonthIndex[row[1]], row[3]>> ELSE <<C11_MonthIndex[row[1]]>>

C11_Keys == {C11_KeyOf(inputdata[i]) : i \in 1..Len(inputdata)}

(* The rows of a key that are classified into a slot. *)
C11_RowsInto(key, slot) ==
    {i \in 1..Len(inputdata) :
        /\ C11_KeyOf(inputdata[i]) = key
        /\ C11_SlotOf[inputdata[i][Len(inputdata[i])]] = slot}

C11_Latest(I) == CHOOSE i \in I : \A j \in I : j <= i

(* The value of the last row of the key classified into the slot, null when  *)
(* there is none.                                                            *)
C11_LastValue(key, slot) ==
    IF C11_RowsInto(key, slot) = {} THEN None
    ELSE Some(inputdata[C11_Latest(C11_RowsInto(key, slot))][2])

C11_Record(key) ==
    <<key[1], C11_Date[key[1]], C11_LastValue(key, 1), C11_LastValue(key, 2)>>
    \o (IF C11_Grouped THEN <<C11_Label[key[2]]>> ELSE <<>>)

(* C11: in the summary, grouped-volume and summary-YOY transforms, for every *)
(* input sequence the output has one record per month (per month and group), *)
(* and each of its two slots holds the value of the last input row of that   *)
(* month (and group) classified into that slot, or null if there is no such  *)
(* row; so a row changes neither the other slot of its month nor any slot of *)
(* another month.                                                            *)
C11_SlotHoldsLastWrite ==
    (Returned(ret) /\ prefix \in {"num_data", "vol_data", "yoy_data_all"} \cup
                                 {"volume_data_age_group", "volume_data_income_level",
                                  "volume_data_score_level"}) =>
        /\ Len(DataRecords(ret)) = Cardinality(C11_Keys)
        /\ \A key \in C11_Keys : HasRecord(ret, C11_Record(key))

(* A slot of month 0 has been written twice, the other slot once in between, *)
(* and the body has been returned.                                           *)
C11_Witness ==
    /\ prefix = "vol_data"
    /\ inputdata = << <<"0", "5", "seasonal">>, <<"0", "5", "UNADJUSTED">>,
                      <<"0", "3", "seasonal">> >>
    /\ Returned(ret)
    /\ DataRecords(ret) = << <<0, "2000-01", Some("3"), Some("5")>> >>

=============================================================================
